---- MODULE Spec2Model ----
(***************************************************************************)
(* A model of the schema type-system validator (src/type/validate.js) and  *)
(* of the UniqueOperationNames query rule (src/unnamed/part_000).          *)
(*                                                                         *)
(* JavaScript values are records with a "kind" field.  Diagnostics carry   *)
(* the very message strings the code builds.  The validation context also  *)
(* carries two instrumentation fields that the code does not have: the     *)
(* number of calls made to the subtype oracle and the log of the calls     *)
(* made to validateObjectImplementsInterface.                              *)
(***************************************************************************)
EXTENDS Naturals, Sequences, FiniteSets, TLC

(* ------------------------------ bounds -------------------------------- *)

\* Schema instances alive at once.
NumInstances == 2
\* Cap on the number of times the checkers may run for one instance.
MaxRuns == 2
\* Longest directive list.
MaxDirectives == 2
\* Longest implemented-interface list of an Object type.
MaxImpl == 3
\* Most fields declared by the interface.
MaxFields == 2
\* Most arguments declared by a field.
MaxArgs == 2
\* Most definitions visited by one instance of the query rule.
MaxVisits == 4

(* --------------------------- JavaScript values ------------------------ *)

Undefined == [kind |-> "undefined"]

\* Boolean(v) for the values of this model: objects are truthy.
Truthy(v) == v.kind \notin {"undefined", "null", "falsy"}

RECURSIVE Filter(_, _)
\* nodes.filter(Boolean)
Filter(nodes, i) ==
  IF i > Len(nodes) THEN <<>>
  ELSE (IF Truthy(nodes[i]) THEN <<nodes[i]>> ELSE <<>>) \o Filter(nodes, i + 1)

\* new GraphQLError(message, nodes)
GraphQLError(message, nodes) == [message |-> message, nodes |-> nodes]

(* ------------------------------- types -------------------------------- *)
(* A named type is a record [kind, name, fields, interfaces, types,        *)
(* astNode].  A type reference of a field or an argument is a sequence of  *)
(* wrappers ("NonNull", "List") ending with the name of a named type.      *)

NamedKinds == {"Scalar", "Object", "Interface", "Union", "Enum", "InputObject"}

Named(n) == <<n>>
NonNull(t) == <<"NonNull">> \o t
List(t) == <<"List">> \o t

\* type instanceof GraphQLNonNull
isNonNull(t) == t[1] = "NonNull"
isList(t) == t[1] = "List"
ofType(t) == Tail(t)

\* isType(type), for the values a type map holds
isType(type) == type.kind \in NamedKinds

isObjectType(type) == type.kind = "Object"
isInterfaceType(type) == type.kind = "Interface"

RECURSIVE TypeToString(_)
\* String(type) of a type reference: "[" ofType "]" for a List, ofType "!" for
\* a NonNull, the name otherwise.
TypeToString(t) ==
  IF isNonNull(t) THEN TypeToString(ofType(t)) \o "!"
  ELSE IF isList(t) THEN "[" \o TypeToString(ofType(t)) \o "]"
  ELSE t[1]

\* String(value) of a named type, of undefined, or of a foreign object.
String(v) ==
  IF v.kind \in NamedKinds \/ v.kind = "Directive" THEN v.name
  ELSE IF v.kind = "undefined" THEN "undefined"
  ELSE IF v.kind = "primitive" THEN "42"
  ELSE "[object Object]"

(* ------------------------------ schema -------------------------------- *)
(* A schema is [queryType, mutationType, subscriptionType, directives,     *)
(* typeMap, astNode]; typeMap is the sequence of the map's values in key   *)
(* order.  Schemas here are built programmatically: no value has a syntax  *)
(* node.                                                                   *)

RECURSIVE Lookup(_, _, _)
Lookup(typeMap, name, i) ==
  IF i > Len(typeMap) THEN Undefined
  ELSE IF typeMap[i].name = name /\ isType(typeMap[i]) THEN typeMap[i]
  ELSE Lookup(typeMap, name, i + 1)

\* The named type a name refers to.
getType(schema, name) == Lookup(schema.typeMap, name, 1)

\* schema.isPossibleType(abstractType, possibleType)
isPossibleType(schema, abstractType, possibleType) ==
  IF abstractType.kind = "Union"
  THEN \E i \in 1..Len(abstractType.types) : abstractType.types[i] = possibleType.name
  ELSE \E i \in 1..Len(possibleType.interfaces) : possibleType.interfaces[i] = abstractType.name

RECURSIVE isEqualType(_, _)
\* isEqualType(typeA, typeB): structural equality through the wrappers.
isEqualType(typeA, typeB) ==
  IF typeA = typeB THEN TRUE
  ELSE IF isNonNull(typeA) /\ isNonNull(typeB) THEN isEqualType(ofType(typeA), ofType(typeB))
  ELSE IF isList(typeA) /\ isList(typeB) THEN isEqualType(ofType(typeA), ofType(typeB))
  ELSE FALSE

RECURSIVE isTypeSubTypeOf(_, _, _)
\* isTypeSubTypeOf(schema, maybeSubType, superType)
isTypeSubTypeOf(schema, maybeSubType, superType) ==
  IF maybeSubType = superType THEN TRUE
  ELSE IF isNonNull(superType)
  THEN (IF isNonNull(maybeSubType)
        THEN isTypeSubTypeOf(schema, ofType(maybeSubType), ofType(superType))
        ELSE FALSE)
  ELSE IF isNonNull(maybeSubType)
  THEN isTypeSubTypeOf(schema, ofType(maybeSubType), superType)
  ELSE IF isList(superType)
  THEN (IF isList(maybeSubType)
        THEN isTypeSubTypeOf(schema, ofType(maybeSubType), ofType(superType))
        ELSE FALSE)
  ELSE IF isList(maybeSubType) THEN FALSE
  ELSE LET sup == getType(schema, superType[1])
           sub == getType(schema, maybeSubType[1])
       IN  /\ sup.kind \in {"Interface", "Union"}
           /\ sub.kind = "Object"
           /\ isPossibleType(schema, sup, sub)

(* ------------------------- SchemaValidationContext -------------------- *)

\* new SchemaValidationContext()
SchemaValidationContext == [errors |-> <<>>, subTypeCalls |-> 0, implCalls |-> <<>>]

\* context.reportError(message, nodes); nodes is given as an array.
reportError(context, message, nodes) ==
  [context EXCEPT !.errors = Append(@, GraphQLError(message, Filter(nodes, 1)))]

\* context.getErrors()
getErrors(context) == context.errors

(* ----------------------------- node locator --------------------------- *)
(* No type, field or argument of the schemas validated here has a syntax   *)
(* node (astNode and extensionASTNodes are undefined), so each search of   *)
(* the declarations finds nothing: undefined, or an empty array.           *)

\* Without a schema syntax node: type && type.astNode.
getOperationTypeNode(schema, type, operation) ==
  IF Truthy(type) THEN type.astNode ELSE type

getAllImplementsInterfaceNode(type, iface) == <<>>

getImplementsInterfaceNode(type, iface) == Undefined

getFieldNode(type, fieldName) == Undefined

getFieldTypeNode(type, fieldName) == Undefined

getFieldArgNode(type, fieldName, argName) == Undefined

getFieldArgTypeNode(type, fieldName, argName) == Undefined

(* ---------------------------- validateRootTypes ----------------------- *)

\* validateRootTypes with the three checks chained by "else if": the first
\* finding ends the function.
validateRootTypesFirstOnly(context, schema) ==
  LET queryType == schema.queryType
      mutationType == schema.mutationType
      subscriptionType == schema.subscriptionType
  IN  IF ~Truthy(queryType)
      THEN reportError(context, "Query root type must be provided.",
                       <<schema.astNode>>)
      ELSE IF ~isObjectType(queryType)
      THEN reportError(context,
             "Query root type must be Object type but got: "
               \o String(queryType) \o ".",
             <<getOperationTypeNode(schema, queryType, "query")>>)
      ELSE IF Truthy(mutationType) /\ ~isObjectType(mutationType)
      THEN reportError(context,
             "Mutation root type must be Object type if provided but got: "
               \o (String(mutationType) \o "."),
             <<getOperationTypeNode(schema, mutationType, "mutation")>>)
      ELSE IF Truthy(subscriptionType) /\ ~isObjectType(subscriptionType)
      THEN reportError(context,
             "Subscription root type must be Object type if provided but got: "
               \o (String(subscriptionType) \o "."),
             <<getOperationTypeNode(schema, subscriptionType, "subscription")>>)
      ELSE context

validateRootTypes(context, schema) ==
  LET queryType == schema.queryType
      mutationType == schema.mutationType
      subscriptionType == schema.subscriptionType
      c1 == IF ~Truthy(queryType)
            THEN reportError(context, "Query root type must be provided.",
                             <<schema.astNode>>)
            ELSE IF ~isObjectType(queryType)
            THEN reportError(context,
                   "Query root type must be Object type but got: "
                     \o String(queryType) \o ".",
                   <<getOperationTypeNode(schema, queryType, "query")>>)
            ELSE context
      c2 == IF Truthy(mutationType) /\ ~isObjectType(mutationType)
            THEN reportError(c1,
                   "Mutation root type must be Object type if provided but got: "
                     \o (String(mutationType) \o "."),
                   <<getOperationTypeNode(schema, mutationType, "mutation")>>)
            ELSE c1
  IN  IF Truthy(subscriptionType) /\ ~isObjectType(subscriptionType)
      THEN reportError(c2,
             "Subscription root type must be Object type if provided but got: "
               \o (String(subscriptionType) \o "."),
             <<getOperationTypeNode(schema, subscriptionType, "subscription")>>)
      ELSE c2

(* ---------------------------- validateDirectives ---------------------- *)

\* The callback of directives.forEach.
DirectiveStep(context, directive) ==
  IF directive.kind # "Directive"
  THEN reportError(context,
         "Expected directive but got: " \o String(directive) \o ".",
         <<IF Truthy(directive) THEN directive.astNode ELSE directive>>)
  ELSE context

RECURSIVE DirectiveLoop(_, _, _)
DirectiveLoop(context, directives, i) ==
  IF i > Len(directives) THEN context
  ELSE DirectiveLoop(DirectiveStep(context, directives[i]), directives, i + 1)

validateDirectives(context, schema) ==
  DirectiveLoop(context, schema.directives, 1)

(* ------------------- validateObjectImplementsInterface ---------------- *)

RECURSIVE find(_, _, _)
\* find(args, arg => arg.name === argName)
find(args, argName, i) ==
  IF i > Len(args) THEN Undefined
  ELSE IF args[i].name = argName THEN args[i]
  ELSE find(args, argName, i + 1)

\* IfaceArgStep comparing the argument types covariantly: the object's
\* argument type may be a NonNull of the interface's.
IfaceArgStepCovariant(context, object, iface, fieldName, objectField, ifaceArg) ==
  LET argName == ifaceArg.name
      objectArg == find(objectField.args, argName, 1)
  IN  IF ~Truthy(objectArg)
      THEN reportError(context,
             iface.name \o "." \o fieldName \o " expects argument \"" \o argName
               \o "\" but " \o (object.name \o "." \o fieldName
               \o " does not provide it."),
             <<getFieldArgNode(iface, fieldName, argName),
               getFieldNode(object, fieldName)>>)
      ELSE IF ~(isEqualType(ifaceArg.type, objectArg.type)
                \/ (isNonNull(objectArg.type)
                    /\ isEqualType(ifaceArg.type, ofType(objectArg.type))))
      THEN reportError(context,
             iface.name \o "." \o fieldName \o "(" \o argName \o ":) expects type "
               \o ("\"" \o TypeToString(ifaceArg.type) \o "\" but ")
               \o (object.name \o "." \o fieldName \o "(" \o argName \o ":) is type ")
               \o ("\"" \o TypeToString(objectArg.type) \o "\"."),
             <<getFieldArgTypeNode(iface, fieldName, argName),
               getFieldArgTypeNode(object, fieldName, argName)>>)
      ELSE context

\* The callback of ifaceField.args.forEach.
IfaceArgStep(context, object, iface, fieldName, objectField, ifaceArg) ==
  LET argName == ifaceArg.name
      objectArg == find(objectField.args, argName, 1)
  IN  IF ~Truthy(objectArg)
      THEN reportError(context,
             iface.name \o "." \o fieldName \o " expects argument \"" \o argName
               \o "\" but " \o (object.name \o "." \o fieldName
               \o " does not provide it."),
             <<getFieldArgNode(iface, fieldName, argName),
               getFieldNode(object, fieldName)>>)
      ELSE IF ~isEqualType(ifaceArg.type, objectArg.type)
      THEN reportError(context,
             iface.name \o "." \o fieldName \o "(" \o argName \o ":) expects type "
               \o ("\"" \o TypeToString(ifaceArg.type) \o "\" but ")
               \o (object.name \o "." \o fieldName \o "(" \o argName \o ":) is type ")
               \o ("\"" \o TypeToString(objectArg.type) \o "\"."),
             <<getFieldArgTypeNode(iface, fieldName, argName),
               getFieldArgTypeNode(object, fieldName, argName)>>)
      ELSE context

RECURSIVE IfaceArgLoop(_, _, _, _, _, _, _)
IfaceArgLoop(context, object, iface, fieldName, objectField, args, i) ==
  IF i > Len(args) THEN context
  ELSE IfaceArgLoop(
         IfaceArgStep(context, object, iface, fieldName, objectField, args[i]),
         object, iface, fieldName, objectField, args, i + 1)

\* ObjectArgStep without the test that the extra argument is required.
ObjectArgStepAnyExtra(context, object, iface, fieldName, ifaceField, objectArg) ==
  LET argName == objectArg.name
      ifaceArg == find(ifaceField.args, argName, 1)
  IN  IF ~Truthy(ifaceArg)
      THEN reportError(context,
             object.name \o "." \o fieldName \o "(" \o argName
               \o ":) is of required type "
               \o ("\"" \o TypeToString(objectArg.type)
                   \o "\" but is not also provided by the ")
               \o ("interface " \o iface.name \o "." \o fieldName \o "."),
             <<getFieldArgTypeNode(object, fieldName, argName),
               getFieldNode(iface, fieldName)>>)
      ELSE context

\* The callback of objectField.args.forEach.
ObjectArgStep(context, object, iface, fieldName, ifaceField, objectArg) ==
  LET argName == objectArg.name
      ifaceArg == find(ifaceField.args, argName, 1)
  IN  IF ~Truthy(ifaceArg) /\ isNonNull(objectArg.type)
      THEN reportError(context,
             object.name \o "." \o fieldName \o "(" \o argName
               \o ":) is of required type "
               \o ("\"" \o TypeToString(objectArg.type)
                   \o "\" but is not also provided by the ")
               \o ("interface " \o iface.name \o "." \o fieldName \o "."),
             <<getFieldArgTypeNode(object, fieldName, argName),
               getFieldNode(iface, fieldName)>>)
      ELSE context

RECURSIVE ObjectArgLoop(_, _, _, _, _, _, _)
ObjectArgLoop(context, object, iface, fieldName, ifaceField, args, i) ==
  IF i > Len(args) THEN context
  ELSE ObjectArgLoop(
         ObjectArgStep(context, object, iface, fieldName, ifaceField, args[i]),
         object, iface, fieldName, ifaceField, args, i + 1)

\* FieldTypeStep with the two types handed to the oracle in the wrong order.
FieldTypeStepSwapped(context, schema, object, iface, fieldName, objectField, ifaceField) ==
  LET counted == [context EXCEPT !.subTypeCalls = @ + 1]
  IN  IF ~isTypeSubTypeOf(schema, ifaceField.type, objectField.type)
      THEN reportError(counted,
             iface.name \o "." \o fieldName \o " expects type "
               \o ("\"" \o TypeToString(ifaceField.type) \o "\" but "
                   \o object.name \o "." \o fieldName \o " is ")
               \o ("type \"" \o TypeToString(objectField.type) \o "\"."),
             <<getFieldTypeNode(iface, fieldName),
               getFieldTypeNode(object, fieldName)>>)
      ELSE counted

\* The return-type check of one interface field; the oracle call is counted.
FieldTypeStep(context, schema, object, iface, fieldName, objectField, ifaceField) ==
  LET counted == [context EXCEPT !.subTypeCalls = @ + 1]
  IN  IF ~isTypeSubTypeOf(schema, objectField.type, ifaceField.type)
      THEN reportError(counted,
             iface.name \o "." \o fieldName \o " expects type "
               \o ("\"" \o TypeToString(ifaceField.type) \o "\" but "
                   \o object.name \o "." \o fieldName \o " is ")
               \o ("type \"" \o TypeToString(objectField.type) \o "\"."),
             <<getFieldTypeNode(iface, fieldName),
               getFieldTypeNode(object, fieldName)>>)
      ELSE counted

\* The callback of Object.keys(ifaceFieldMap).forEach.
IfaceFieldStep(context, schema, object, iface, ifaceField) ==
  LET fieldName == ifaceField.name
      objectField == find(object.fields, fieldName, 1)
  IN  IF ~Truthy(objectField)
      THEN reportError(context,
             "\"" \o iface.name \o "\" expects field \"" \o fieldName
               \o "\" but \"" \o object.name \o "\" " \o "does not provide it.",
             <<getFieldNode(iface, fieldName), object.astNode>>)
      ELSE LET c1 == FieldTypeStep(context, schema, object, iface, fieldName,
                                   objectField, ifaceField)
               c2 == IfaceArgLoop(c1, object, iface, fieldName, objectField,
                                  ifaceField.args, 1)
           IN  ObjectArgLoop(c2, object, iface, fieldName, ifaceField,
                             objectField.args, 1)

RECURSIVE IfaceFieldLoop(_, _, _, _, _)
IfaceFieldLoop(context, schema, object, iface, i) ==
  IF i > Len(iface.fields) THEN context
  ELSE IfaceFieldLoop(
         IfaceFieldStep(context, schema, object, iface, iface.fields[i]),
         schema, object, iface, i + 1)

\* The body of validateObjectImplementsInterface.
ImplementsBody(context, schema, object, iface) ==
  IF ~isInterfaceType(iface)
  THEN reportError(context,
         String(object) \o " must only implement Interface types, it cannot "
           \o ("implement " \o String(iface) \o "."),
         <<getImplementsInterfaceNode(object, iface)>>)
  ELSE IfaceFieldLoop(context, schema, object, iface, 1)

\* validateObjectImplementsInterface, with the call logged: the object, the
\* interface, and the places in the error list of the diagnostics it added.
validateObjectImplementsInterface(context, schema, object, iface) ==
  LET after == ImplementsBody(context, schema, object, iface)
  IN  [after EXCEPT !.implCalls =
         Append(@, [object |-> object.name, iface |-> iface.name,
                    first |-> Len(context.errors) + 1,
                    last |-> Len(after.errors)])]

(* ------------------------------ validateTypes ------------------------- *)

\* InterfaceStep reporting a name once however often it is repeated: a name
\* reported is taken out of implementedTypeNames.
InterfaceStepReportOnce(acc, schema, type, iface) ==
  LET seen == iface.name \in acc.implementedTypeNames
      c1 == IF seen
            THEN reportError(acc.context,
                   type.name \o " must declare it implements " \o iface.name
                     \o " only once.",
                   getAllImplementsInterfaceNode(type, iface))
            ELSE acc.context
  IN  [context |-> validateObjectImplementsInterface(c1, schema, type, iface),
       implementedTypeNames |->
         IF seen THEN acc.implementedTypeNames \ {iface.name}
         ELSE acc.implementedTypeNames \cup {iface.name}]

\* The callback of type.getInterfaces().forEach: the context and the names
\* recorded in implementedTypeNames.
InterfaceStep(acc, schema, type, iface) ==
  LET c1 == IF iface.name \in acc.implementedTypeNames
            THEN reportError(acc.context,
                   type.name \o " must declare it implements " \o iface.name
                     \o " only once.",
                   getAllImplementsInterfaceNode(type, iface))
            ELSE acc.context
  IN  [context |-> validateObjectImplementsInterface(c1, schema, type, iface),
       implementedTypeNames |-> acc.implementedTypeNames \cup {iface.name}]

RECURSIVE InterfaceLoop(_, _, _, _, _)
InterfaceLoop(acc, schema, type, interfaces, i) ==
  IF i > Len(interfaces) THEN acc
  ELSE InterfaceLoop(InterfaceStep(acc, schema, type, interfaces[i]),
                     schema, type, interfaces, i + 1)

\* type.getInterfaces(): the referenced types themselves.
getInterfaces(schema, type) ==
  [i \in 1..Len(type.interfaces) |-> getType(schema, type.interfaces[i])]

\* The callback of Object.keys(typeMap).forEach.
TypeStep(context, schema, type) ==
  LET c1 == IF ~isType(type)
            THEN reportError(context,
                   "Expected GraphQL type but got: " \o String(type) \o ".",
                   <<IF Truthy(type) THEN type.astNode ELSE type>>)
            ELSE context
  IN  IF isObjectType(type)
      THEN InterfaceLoop([context |-> c1, implementedTypeNames |-> {}],
                         schema, type, getInterfaces(schema, type), 1).context
      ELSE c1

RECURSIVE TypeLoop(_, _, _)
TypeLoop(context, schema, i) ==
  IF i > Len(schema.typeMap) THEN context
  ELSE TypeLoop(TypeStep(context, schema, schema.typeMap[i]), schema, i + 1)

validateTypes(context, schema) == TypeLoop(context, schema, 1)

\* The three checkers of validateSchema, in its order, on a fresh context.
RunCheckers(schema) ==
  validateTypes(
    validateDirectives(
      validateRootTypes(SchemaValidationContext, schema), schema), schema)

(* ------------------------------- state -------------------------------- *)

VARIABLES
  schemas,             \* instance id -> the schema the construction layer built
  validationErrors,    \* object -> its __validationErrors property
  checkerRuns,         \* instance id -> times the checkers ran for it
  subTypeCalls,        \* the side-effect counter of the subtype oracle
  allocated,           \* arrays allocated so far: an array's identity
  probe,               \* instance id -> the context of its checker run
  result,              \* the last call: operation, argument, outcome
  knownOperationNames, \* the rule's map: operation name -> its first name node
  reported,            \* the errors the rule reported to its context
  visited,             \* the definitions the rule instance has visited
  returned             \* what the last handler of the rule returned

vars == <<schemas, validationErrors, checkerRuns, subTypeCalls, allocated,
          probe, result, knownOperationNames, reported, visited, returned>>

validatorVars == <<schemas, validationErrors, checkerRuns, subTypeCalls,
                   allocated, probe, result>>

ruleVars == <<knownOperationNames, reported, visited, returned>>

(* --------------------------- argument values -------------------------- *)

Instances == 1..NumInstances

\* A GraphQLSchema instance of this module.
Instance(i) == [kind |-> "GraphQLSchema", id |-> i]

\* Values that are not a GraphQLSchema: undefined, null, a falsy primitive
\* (0, "", false), a truthy primitive (42), a plain object, a GraphQLSchema of
\* another realm, and an object without prototype (Object.create(null)).
NonSchemas ==
  {[kind |-> k, id |-> 0] :
     k \in {"undefined", "null", "falsy", "primitive", "object",
            "foreignSchema", "bareObject"}}

\* The values that can hold a property.
Objects ==
  {Instance(i) : i \in Instances}
    \cup {v \in NonSchemas : v.kind \in {"object", "foreignSchema", "bareObject"}}

Arguments == {Instance(i) : i \in Instances} \cup NonSchemas

\* Object.getPrototypeOf(schema).constructor.name
ConstructorName(v) ==
  IF v.kind = "foreignSchema" THEN "GraphQLSchema"
  ELSE IF v.kind = "primitive" THEN "Number"
  ELSE "Object"

CrossRealmMessage ==
  "Cannot use a GraphQLSchema from another module or realm.\n\nEnsure that there is only one instance of \"graphql\" in the node_modules\ndirectory. If different versions of \"graphql\" are the dependencies of other\nrelied on modules, use \"resolutions\" to ensure only one version is installed.\n\nhttps://yarnpkg.com/en/docs/selective-version-resolutions\n\nDuplicate \"graphql\" modules cannot be used at the same time since different\nversions may have different capabilities and behavior. The data from one\nversion used in the function from another could produce confusing and\nspurious results."

\* What the engine throws on null.constructor.
NullPrototypeMessage == "Cannot read property 'constructor' of null"

(* ---------------------------- validateSchema -------------------------- *)

\* throw new Error(message): nothing is stored, no checker runs.
Throw(message) ==
  [outcome |-> "threw", message |-> message, value |-> Undefined,
   ran |-> FALSE, context |-> SchemaValidationContext,
   validationErrors |-> validationErrors]

\* The checker run of validateSchema: the errors are persisted on the schema
\* and returned.
ValidateAndPersist(schema) ==
  LET context == RunCheckers(schemas[schema.id])
      errors == [kind |-> "Array", id |-> allocated + 1,
                 items |-> getErrors(context)]
  IN  [outcome |-> "returned", message |-> "", value |-> errors,
       ran |-> TRUE, context |-> context,
       validationErrors |-> [validationErrors EXCEPT ![schema] = errors]]

\* "if (schema.__validationErrors.length)": an empty list counts as absent.
AlreadyValidatedNonEmpty(schema) ==
  Truthy(validationErrors[schema]) /\ Len(validationErrors[schema].items) # 0

\* if (schema.__validationErrors)
AlreadyValidated(schema) == Truthy(validationErrors[schema])

\* validateSchema with "return []" where "Must provide schema." is thrown.
validateSchemaLenient(schema) ==
  IF schema.kind # "GraphQLSchema"
  THEN IF ~Truthy(schema)
       THEN [outcome |-> "returned", message |-> "",
             value |-> [kind |-> "Array", id |-> allocated + 1, items |-> <<>>],
             ran |-> FALSE, context |-> SchemaValidationContext,
             validationErrors |-> validationErrors]
       ELSE Throw("Schema must be an instance of GraphQLSchema. "
                    \o ("Received: " \o String(schema)))
  ELSE IF AlreadyValidated(schema)
  THEN [outcome |-> "returned", message |-> "",
        value |-> validationErrors[schema], ran |-> FALSE,
        context |-> SchemaValidationContext,
        validationErrors |-> validationErrors]
  ELSE ValidateAndPersist(schema)

\* validateSchema(schema): the outcome, the value returned or the message
\* thrown, and the __validationErrors properties after the call.
validateSchema(schema) ==
  IF schema.kind # "GraphQLSchema"
  THEN IF ~Truthy(schema) THEN Throw("Must provide schema.")
       ELSE IF schema.kind = "bareObject" THEN Throw(NullPrototypeMessage)
       ELSE IF ConstructorName(schema) = "GraphQLSchema"
       THEN Throw(CrossRealmMessage)
       ELSE Throw("Schema must be an instance of GraphQLSchema. "
                    \o ("Received: " \o String(schema)))
  ELSE IF AlreadyValidated(schema)
  THEN [outcome |-> "returned", message |-> "",
        value |-> validationErrors[schema], ran |-> FALSE,
        context |-> SchemaValidationContext,
        validationErrors |-> validationErrors]
  ELSE ValidateAndPersist(schema)

RECURSIVE Join(_, _, _)
\* errors.map(error => error.message).join(separator)
Join(errors, separator, i) ==
  IF i > Len(errors) THEN ""
  ELSE IF i = Len(errors) THEN errors[i].message
  ELSE errors[i].message \o separator \o Join(errors, separator, i + 1)

\* assertValidSchema joining the messages with one line break.
assertValidSchemaOneBreak(schema) ==
  LET r == validateSchema(schema)
  IN  IF r.outcome = "threw" THEN r
      ELSE IF Len(r.value.items) # 0
      THEN [r EXCEPT !.outcome = "threw",
                     !.message = Join(r.value.items, "\n", 1),
                     !.value = Undefined]
      ELSE [r EXCEPT !.value = Undefined]

\* assertValidSchema(schema): an error thrown by validateSchema propagates.
assertValidSchema(schema) ==
  LET r == validateSchema(schema)
  IN  IF r.outcome = "threw" THEN r
      ELSE IF Len(r.value.items) # 0
      THEN [r EXCEPT !.outcome = "threw",
                     !.message = Join(r.value.items, "\n\n", 1),
                     !.value = Undefined]
      ELSE [r EXCEPT !.value = Undefined]

\* The effect of one call on the state.
Call(op, schema, r) ==
  /\ r.ran => checkerRuns[schema.id] < MaxRuns
  /\ validationErrors' = r.validationErrors
  /\ checkerRuns' =
       IF r.ran THEN [checkerRuns EXCEPT ![schema.id] = @ + 1] ELSE checkerRuns
  /\ subTypeCalls' = subTypeCalls + r.context.subTypeCalls
  /\ allocated' = IF r.ran THEN allocated + 1 ELSE allocated
  /\ probe' = IF r.ran THEN [probe EXCEPT ![schema.id] = r.context] ELSE probe
  /\ result' = [op |-> op, arg |-> schema, outcome |-> r.outcome,
                message |-> r.message, value |-> r.value, ran |-> r.ran]
  /\ UNCHANGED <<schemas, ruleVars>>

ValidateSchema(schema) == Call("validateSchema", schema, validateSchema(schema))

AssertValidSchema(schema) ==
  Call("assertValidSchema", schema, assertValidSchema(schema))

(* --------------------- UniqueOperationNames (the rule) ---------------- *)

OperationNames == {"a", "b"}

\* The value false, the "do not descend" signal of a visitor.
False == [kind |-> "falsy", value |-> "false"]

\* The Name node at a position of the document.
NameNode(value, loc) == [kind |-> "Name", value |-> value, loc |-> loc]

duplicateOperationNameMessage(operationName) ==
  "There can be only one operation named \"" \o operationName \o "\"."

\* The handler recording the name node of every occurrence: a duplicate
\* replaces the node recorded before it.
OperationDefinitionHandlerLast(node) ==
  LET operationName == node.name
  IN  IF Truthy(operationName)
      THEN [knownOperationNames |->
              [knownOperationNames EXCEPT ![operationName.value] = operationName],
            reported |->
              IF Truthy(knownOperationNames[operationName.value])
              THEN Append(reported,
                     GraphQLError(
                       duplicateOperationNameMessage(operationName.value),
                       <<knownOperationNames[operationName.value], operationName>>))
              ELSE reported,
            returned |-> False]
      ELSE [knownOperationNames |-> knownOperationNames,
            reported |-> reported,
            returned |-> False]

\* The OperationDefinition handler: the map, the reported errors and the
\* value returned.
OperationDefinitionHandler(node) ==
  LET operationName == node.name
  IN  IF Truthy(operationName)
      THEN IF Truthy(knownOperationNames[operationName.value])
           THEN [knownOperationNames |-> knownOperationNames,
                 reported |-> Append(reported,
                    GraphQLError(
                      duplicateOperationNameMessage(operationName.value),
                      <<knownOperationNames[operationName.value], operationName>>)),
                 returned |-> False]
           ELSE [knownOperationNames |->
                   [knownOperationNames EXCEPT ![operationName.value] = operationName],
                 reported |-> reported,
                 returned |-> False]
      ELSE [knownOperationNames |-> knownOperationNames,
            reported |-> reported,
            returned |-> False]

\* The FragmentDefinition handler: () => false.
FragmentDefinitionHandler(node) ==
  [knownOperationNames |-> knownOperationNames, reported |-> reported,
   returned |-> False]

\* The definitions a document may hold at position loc.
OperationNodes(loc) ==
  {[kind |-> "OperationDefinition", name |-> n] :
     n \in {Undefined} \cup {NameNode(v, loc) : v \in OperationNames}}

FragmentNodes(loc) ==
  {[kind |-> "FragmentDefinition", name |-> NameNode(v, loc)] :
     v \in OperationNames}

Visit(node, r) ==
  /\ Len(visited) < MaxVisits
  /\ knownOperationNames' = r.knownOperationNames
  /\ reported' = r.reported
  /\ returned' = r.returned
  /\ visited' = Append(visited, node)
  /\ UNCHANGED validatorVars

OperationDefinition ==
  \E node \in OperationNodes(Len(visited) + 1) :
    Visit(node, OperationDefinitionHandler(node))

FragmentDefinition ==
  \E node \in FragmentNodes(Len(visited) + 1) :
    Visit(node, FragmentDefinitionHandler(node))

(* ------------------------- the schemas validated ---------------------- *)

TypeDef(kind, name, fields, interfaces, types) ==
  [kind |-> kind, name |-> name, fields |-> fields, interfaces |-> interfaces,
   types |-> types, astNode |-> Undefined]

Field(name, type, args) ==
  [kind |-> "Field", name |-> name, type |-> type, args |-> args]

Argument(name, type) == [kind |-> "Argument", name |-> name, type |-> type]

Directive(name) == [kind |-> "Directive", name |-> name, astNode |-> Undefined]

\* An object of another module or realm where a type or a directive belongs.
Foreign == [kind |-> "Foreign", name |-> "", astNode |-> Undefined]

StringType == TypeDef("Scalar", "String", <<>>, <<>>, <<>>)
IntType == TypeDef("Scalar", "Int", <<>>, <<>>, <<>>)
QueryType ==
  TypeDef("Object", "Query", <<Field("hello", Named("String"), <<>>)>>, <<>>, <<>>)
MutationType ==
  TypeDef("Object", "Mutation", <<Field("set", Named("Int"), <<>>)>>, <<>>, <<>>)
SubscriptionType ==
  TypeDef("Object", "Subscription", <<Field("tick", Named("Int"), <<>>)>>, <<>>, <<>>)
UnionU == TypeDef("Union", "U", <<>>, <<>>, <<"T">>)
InterfaceJ == TypeDef("Interface", "J", <<Field("id", Named("Int"), <<>>)>>, <<>>, <<>>)
InterfaceI(fields) == TypeDef("Interface", "I", fields, <<>>, <<>>)
ObjectT(fields, interfaces) == TypeDef("Object", "T", fields, interfaces, <<>>)

\* A schema: its root slots, its directives, the fields of interface I, the
\* fields and the interface list of object type T, and further map entries.
MakeSchema(q, m, s, directives, iFields, tFields, tInterfaces, extra) ==
  [queryType |-> q, mutationType |-> m, subscriptionType |-> s,
   directives |-> directives,
   typeMap |-> <<QueryType, MutationType, SubscriptionType, StringType, IntType,
                 InterfaceI(iFields), InterfaceJ, UnionU,
                 ObjectT(tFields, tInterfaces)>> \o extra,
   astNode |-> Undefined]

FieldF == Field("f", Named("String"), <<Argument("a", Named("String"))>>)
FieldId == Field("id", Named("Int"), <<>>)

\* A schema without defect; validating it calls the subtype oracle.
ValidShape ==
  MakeSchema(QueryType, Undefined, Undefined, <<Directive("skip")>>,
             <<FieldF>>, <<FieldF, FieldId>>, <<"I">>, <<>>)

SeqsUpTo(S, n) == UNION {[1..k -> S] : k \in 0..n}

\* Schemas for the entry points: none, one, two and three diagnostics.
EntryShapes ==
  { ValidShape,
    MakeSchema(QueryType, Undefined, Undefined, <<>>, <<>>, <<>>, <<>>, <<>>),
    MakeSchema(Undefined, Undefined, Undefined, <<Directive("skip")>>,
               <<FieldF>>, <<FieldF>>, <<"I">>, <<>>),
    MakeSchema(QueryType, Undefined, Undefined, <<Foreign>>,
               <<FieldF>>, <<FieldId>>, <<"I">>, <<>>),
    MakeSchema(QueryType, StringType, Undefined, <<Directive("skip")>>,
               <<FieldF>>, <<Field("f", Named("Int"), <<>>)>>, <<"I">>, <<>>) }

\* Schemas varying the root slots, the directive list and the type map.
OrderShapes ==
  { MakeSchema(q, m, s, d, <<FieldF>>, t[1], t[2], t[3]) :
      q \in {Undefined, QueryType, UnionU},
      m \in {Undefined, MutationType, StringType},
      s \in {Undefined, SubscriptionType, IntType},
      d \in SeqsUpTo({Directive("skip"), Foreign}, MaxDirectives),
      t \in { <<<<FieldF>>, <<"I">>, <<>>>>,
              <<<<FieldId>>, <<"I">>, <<>>>>,
              <<<<FieldF>>, <<"U">>, <<>>>>,
              <<<<FieldF>>, <<"I">>, <<Foreign>>>> } }

\* Schemas varying the interface list of T.
ImplShapes ==
  { MakeSchema(QueryType, Undefined, Undefined, <<>>, <<FieldF>>, tf, ti, <<>>) :
      tf \in { <<FieldF, FieldId>>, <<FieldId>> },
      ti \in SeqsUpTo({"I", "J", "U"}, MaxImpl) }

FieldNames == <<"f", "g", "h">>
ArgNames == <<"a", "b", "c">>

\* Return types of an interface field and of the object's field (<<>>: the
\* object has no such field).
ReturnPairs ==
  { <<Named("String"), Named("String")>>,
    <<Named("String"), NonNull(Named("String"))>>,
    <<NonNull(Named("String")), Named("String")>>,
    <<Named("I"), Named("T")>>,
    <<Named("T"), Named("I")>>,
    <<List(Named("String")), Named("String")>>,
    <<Named("String"), <<>>>> }

\* Arguments of an interface field and of the object's field.
ArgumentPairs ==
  { <<<<>>, <<>>>>,
    << <<Argument("a", Named("String")), Argument("b", Named("Int"))>>,
       <<Argument("a", NonNull(Named("String"))),
         Argument("c", NonNull(Named("Int")))>> >> }

IsField(x) == x.kind = "Field"

\* Schemas varying the fields of I and of T, which implements I.
FieldShapes ==
  { MakeSchema(QueryType, Undefined, Undefined, <<>>,
      [j \in 1..Len(o) |-> Field(FieldNames[j], o[j][1][1], o[j][2][1])],
      SelectSeq(
        [j \in 1..Len(o) |->
           IF o[j][1][2] = <<>> THEN Undefined
           ELSE Field(FieldNames[j], o[j][1][2], o[j][2][2])],
        IsField),
      <<"I">>, <<>>) :
      o \in SeqsUpTo(ReturnPairs \X ArgumentPairs, MaxFields) }

ArgTypes == {Named("String"), NonNull(Named("String")), NonNull(Named("Int"))}

\* The argument lists over the first MaxArgs names: each name absent or
\* declared with one of ArgTypes.
ArgLists ==
  { SelectSeq([j \in 1..MaxArgs |->
                 IF c[j] = <<>> THEN Undefined ELSE Argument(ArgNames[j], c[j])],
              LAMBDA x : x.kind = "Argument") :
      c \in [1..MaxArgs -> {<<>>} \cup ArgTypes] }

\* Schemas varying the arguments of field f of I and of T.
ArgShapes ==
  { MakeSchema(QueryType, Undefined, Undefined, <<>>,
               <<Field("f", Named("String"), ia)>>,
               <<Field("f", Named("String"), oa)>>, <<"I">>, <<>>) :
      ia \in ArgLists, oa \in ArgLists }

(* --------------------------- specifications --------------------------- *)

RuleInit ==
  /\ knownOperationNames = [n \in OperationNames |-> Undefined]
  /\ reported = <<>>
  /\ visited = <<>>
  /\ returned = Undefined

ValidatorInit ==
  /\ validationErrors = [o \in Objects |-> Undefined]
  /\ checkerRuns = [i \in Instances |-> 0]
  /\ subTypeCalls = 0
  /\ allocated = 0
  /\ probe = [i \in Instances |-> SchemaValidationContext]
  /\ result = [op |-> "none", arg |-> Undefined, outcome |-> "none",
               message |-> "", value |-> Undefined, ran |-> FALSE]

\* Instance 1 is any schema of the family, the others are valid schemas.
InitWith(shapes) ==
  /\ schemas \in {[i \in Instances |-> IF i = 1 THEN s ELSE ValidShape] :
                    s \in shapes \cup {ValidShape}}
  /\ ValidatorInit
  /\ RuleInit

Init ==
  /\ schemas \in [Instances -> EntryShapes]
  /\ ValidatorInit
  /\ RuleInit

Next ==
  \/ \E schema \in Arguments : ValidateSchema(schema)
  \/ \E schema \in Arguments : AssertValidSchema(schema)

\* Both entry points, on every kind of argument.
Spec == Init /\ [][Next]_vars

NextValidate == \E i \in Instances : ValidateSchema(Instance(i))

InitOrder == InitWith(OrderShapes)
SpecOrder == InitOrder /\ [][NextValidate]_vars

InitImpl == InitWith(ImplShapes)
SpecImpl == InitImpl /\ [][NextValidate]_vars

InitFields == InitWith(FieldShapes)
SpecFields == InitFields /\ [][NextValidate]_vars

InitArgs == InitWith(ArgShapes)
SpecArgs == InitArgs /\ [][NextValidate]_vars

InitRule ==
  /\ schemas = [i \in Instances |-> ValidShape]
  /\ ValidatorInit
  /\ RuleInit

NextRule == OperationDefinition \/ FragmentDefinition

SpecRule == InitRule /\ [][NextRule]_vars

(* ------------------------- claims: entry points ----------------------- *)

\* The heap of the validator is left as it was.
HeapUnchanged ==
  UNCHANGED <<validationErrors, checkerRuns, subTypeCalls, allocated, probe>>

\* What one step may do to instance i, whatever the call.
C1_Step(i) ==
  LET s == Instance(i)
      called == result'.arg = s /\ result'.op = "validateSchema"
  IN  /\ checkerRuns'[i] <= 1
      /\ called =>
           /\ result'.outcome = "returned"
           /\ result'.value = validationErrors'[s]
           /\ result'.value.kind = "Array"
           /\ checkerRuns'[i] = 1
      /\ (called /\ ~Truthy(validationErrors[s])) =>
           /\ result'.ran
           /\ checkerRuns[i] = 0
           /\ result'.value.id = allocated + 1
           /\ result'.value.items = getErrors(probe'[i])
      /\ Truthy(validationErrors[s]) =>
           /\ validationErrors'[s] = validationErrors[s]
           /\ checkerRuns'[i] = checkerRuns[i]
           /\ probe'[i] = probe[i]
           /\ result'.arg = s => ~result'.ran /\ HeapUnchanged
           /\ called => result'.value = validationErrors[s]

\* C1: on one schema instance the first validateSchema call runs the
\* checkers and stores the list it returns; every later call returns that
\* very list (same identity, same contents) and runs neither a checker nor
\* the subtype oracle again, also when the stored list is empty.
C1_ValidatedOncePerInstance == [][\A i \in Instances : C1_Step(i)]_vars

\* A later call returned the stored empty list of a schema whose one checker
\* run called the oracle, while an instance of equal content holds a list of
\* its own.
C1_Witness ==
  \E i, j \in Instances :
    /\ i # j
    /\ result.op = "validateSchema" /\ result.arg = Instance(i)
    /\ result.outcome = "returned" /\ ~result.ran
    /\ result.value = validationErrors[Instance(i)]
    /\ result.value.items = <<>>
    /\ checkerRuns[i] = 1
    /\ probe[i].subTypeCalls > 0
    /\ schemas[j] = schemas[i]
    /\ Truthy(validationErrors[Instance(j)])
    /\ validationErrors[Instance(j)].id # result.value.id

\* C2: validateSchema on an absent value or on a value that is not a
\* GraphQLSchema throws and returns no list; no checker runs, nothing is
\* recorded and no result is attached to the argument.
C2_NonSchemaThrows ==
  [][(result'.op = "validateSchema" /\ result'.arg \in NonSchemas) =>
       /\ result'.outcome = "threw"
       /\ result'.message # ""
       /\ result'.value = Undefined
       /\ ~result'.ran
       /\ HeapUnchanged
       /\ \A o \in Objects \cap NonSchemas : validationErrors'[o] = Undefined]_vars

\* validateSchema threw on an absent value after an instance was validated.
C2_Witness ==
  /\ result.op = "validateSchema"
  /\ result.arg.kind = "undefined"
  /\ result.outcome = "threw"
  /\ result.message = "Must provide schema."
  /\ \E i \in Instances : checkerRuns[i] = 1

RECURSIVE JoinedByBlankLine(_, _)
\* The first n messages, in order, a blank line between two of them.
JoinedByBlankLine(items, n) ==
  IF n = 0 THEN ""
  ELSE IF n = 1 THEN items[1].message
  ELSE JoinedByBlankLine(items, n - 1) \o "\n\n" \o items[n].message

\* C3 as stated: assertValidSchema(schema) throws if and only if
\* validateSchema(schema) returns a non-empty list, and then the message is
\* the diagnostics' messages in order joined by a blank line.
C3_ThrowsIffNonEmptyList ==
  result.op = "assertValidSchema" =>
    LET r == validateSchema(result.arg)
    IN  /\ (result.outcome = "threw") <=>
             (r.outcome = "returned" /\ Len(r.value.items) # 0)
        /\ result.outcome = "threw" =>
             /\ r.outcome = "returned"
             /\ result.message = JoinedByBlankLine(r.value.items, Len(r.value.items))

\* C3 amended: assertValidSchema(schema) throws if and only if
\* validateSchema(schema) throws or returns a non-empty list.  When the list
\* is non-empty the message is the diagnostics' messages, in the order
\* validateSchema produced them, joined by a blank line; when validateSchema
\* throws, its error is what is thrown; when the list is empty the call
\* returns normally.
C3_ThrowsIffThrowsOrNonEmpty ==
  result.op = "assertValidSchema" =>
    LET r == validateSchema(result.arg)
    IN  /\ (result.outcome = "threw") <=>
             (r.outcome = "threw" \/ Len(r.value.items) # 0)
        /\ (r.outcome = "returned" /\ Len(r.value.items) # 0) =>
             result.message = JoinedByBlankLine(r.value.items, Len(r.value.items))
        /\ r.outcome = "threw" => result.message = r.message
        /\ result.outcome # "threw" =>
             /\ result.outcome = "returned"
             /\ result.value = Undefined
             /\ r.value.items = <<>>

\* assertValidSchema threw the two messages of a schema with two diagnostics.
C3_Witness ==
  /\ result.op = "assertValidSchema"
  /\ result.arg.kind = "GraphQLSchema"
  /\ result.outcome = "threw"
  /\ Len(validationErrors[result.arg].items) = 2
  /\ result.message =
       validationErrors[result.arg].items[1].message \o "\n\n"
         \o validationErrors[result.arg].items[2].message

(* --------------------------- claims: checkers ------------------------- *)

\* The diagnostics of a list that carry a message.
Count(errors, message) ==
  Cardinality({k \in DOMAIN errors : errors[k].message = message})

Validated(i) == Truthy(validationErrors[Instance(i)])

\* The messages the failing root slots call for, in the order query,
\* mutation, subscription.
ExpectedRootMessages(schema) ==
  (IF schema.queryType.kind = "undefined"
   THEN <<"Query root type must be provided.">>
   ELSE IF schema.queryType.kind # "Object"
   THEN <<"Query root type must be Object type but got: "
            \o schema.queryType.name \o ".">>
   ELSE <<>>)
  \o (IF schema.mutationType.kind \notin {"undefined", "Object"}
      THEN <<"Mutation root type must be Object type if provided but got: "
               \o schema.mutationType.name \o ".">>
      ELSE <<>>)
  \o (IF schema.subscriptionType.kind \notin {"undefined", "Object"}
      THEN <<"Subscription root type must be Object type if provided but got: "
               \o schema.subscriptionType.name \o ".">>
      ELSE <<>>)

TypeNames == {"Query", "Mutation", "Subscription", "String", "Int", "I", "J", "U", "T"}

\* Every message a root diagnostic may carry.
RootMessages ==
  {"Query root type must be provided."}
    \cup {"Query root type must be Object type but got: " \o n \o "." : n \in TypeNames}
    \cup {"Mutation root type must be Object type if provided but got: " \o n \o "." :
            n \in TypeNames}
    \cup {"Subscription root type must be Object type if provided but got: " \o n \o "." :
            n \in TypeNames}

\* The message of the diagnostic of a foreign object in the directive list.
ForeignDirectiveMessage == "Expected directive but got: [object Object]."

IsForeign(x) == x.kind # "Directive"

C4_Ordered(i) ==
  LET schema == schemas[i]
      errors == validationErrors[Instance(i)].items
      roots == ExpectedRootMessages(schema)
      nRoot == Len(roots)
      nDir == Len(SelectSeq(schema.directives, IsForeign))
  IN  /\ Len(errors) >= nRoot + nDir
      /\ \A k \in 1..nRoot : errors[k].message = roots[k]
      /\ \A k \in (nRoot + 1)..(nRoot + nDir) :
           errors[k].message = ForeignDirectiveMessage
      /\ \A k \in (nRoot + nDir + 1)..Len(errors) :
           errors[k].message \notin RootMessages \cup {ForeignDirectiveMessage}
      /\ SubSeq(errors, nRoot + nDir + 1, Len(errors)) =
           getErrors(validateTypes(SchemaValidationContext, schema))

\* C4: the list validateSchema returns holds one root diagnostic for each
\* failing root slot, in the order query, mutation, subscription; then one
\* diagnostic for each foreign directive; then the diagnostics of the type
\* registry walk, which are those the walk finds whatever was found before.
C4_CheckerOrder == \A i \in Instances : Validated(i) => C4_Ordered(i)

\* A validated schema whose three root slots fail, with a foreign directive
\* and with type diagnostics after them.
C4_Witness ==
  /\ Validated(1)
  /\ Len(ExpectedRootMessages(schemas[1])) = 3
  /\ Len(SelectSeq(schemas[1].directives, IsForeign)) >= 1
  /\ Len(validationErrors[Instance(1)].items) >
       3 + Len(SelectSeq(schemas[1].directives, IsForeign))

\* The Object types of a schema's type map.
ObjectTypes(schema) ==
  {schema.typeMap[k] : k \in {j \in DOMAIN schema.typeMap :
                               schema.typeMap[j].kind = "Object"}}

Occurrences(names, n) == Cardinality({k \in DOMAIN names : names[k] = n})

OnlyOnceMessage(type, n) ==
  type.name \o " must declare it implements " \o n \o " only once."

\* C5: an Object type whose interface list names an interface k times gets
\* exactly k-1 "only once" diagnostics for it.
C5_OnlyOncePerDuplicate ==
  \A i \in Instances : Validated(i) =>
    \A type \in ObjectTypes(schemas[i]) :
      \A k \in DOMAIN type.interfaces :
        Count(validationErrors[Instance(i)].items,
              OnlyOnceMessage(type, type.interfaces[k]))
          = Occurrences(type.interfaces, type.interfaces[k]) - 1

\* T names I three times and has two "only once" diagnostics.
C5_Witness ==
  /\ Validated(1)
  /\ \E type \in ObjectTypes(schemas[1]) :
       /\ Occurrences(type.interfaces, "I") = 3
       /\ Count(validationErrors[Instance(1)].items, OnlyOnceMessage(type, "I")) = 2

\* The calls of the conformance checker for an object type and an interface.
ImplCallsFor(i, objectName, ifaceName) ==
  {k \in DOMAIN probe[i].implCalls :
     /\ probe[i].implCalls[k].object = objectName
     /\ probe[i].implCalls[k].iface = ifaceName}

\* C6: the conformance checker is invoked only for an interface name not
\* recorded yet: once for each distinct interface name of an Object type.
C6_ConformanceOncePerName ==
  \A i \in Instances : Validated(i) =>
    \A type \in ObjectTypes(schemas[i]) :
      \A k \in DOMAIN type.interfaces :
        Cardinality(ImplCallsFor(i, type.name, type.interfaces[k])) = 1

MissingFieldMessage(iface, object, fieldName) ==
  "\"" \o iface.name \o "\" expects field \"" \o fieldName \o "\" but \""
    \o object.name \o "\" does not provide it."

FieldTypeMessage(iface, object, fieldName, ifaceType, objectType) ==
  iface.name \o "." \o fieldName \o " expects type \"" \o TypeToString(ifaceType)
    \o "\" but " \o object.name \o "." \o fieldName \o " is type \""
    \o TypeToString(objectType) \o "\"."

MissingArgMessage(iface, object, fieldName, argName) ==
  iface.name \o "." \o fieldName \o " expects argument \"" \o argName \o "\" but "
    \o object.name \o "." \o fieldName \o " does not provide it."

ArgTypeMessage(iface, object, fieldName, argName, ifaceType, objectType) ==
  iface.name \o "." \o fieldName \o "(" \o argName \o ":) expects type \""
    \o TypeToString(ifaceType) \o "\" but " \o object.name \o "." \o fieldName
    \o "(" \o argName \o ":) is type \"" \o TypeToString(objectType) \o "\"."

ExtraArgMessage(iface, object, fieldName, argName, objectType) ==
  object.name \o "." \o fieldName \o "(" \o argName \o ":) is of required type \""
    \o TypeToString(objectType) \o "\" but is not also provided by the interface "
    \o iface.name \o "." \o fieldName \o "."

\* The members of a list with a name.
Named_(list, name) == {k \in DOMAIN list : list[k].name = name}

Has(list, name) == Named_(list, name) # {}

Get(list, name) == list[CHOOSE k \in Named_(list, name) : TRUE]

\* The argument diagnostics the arguments of a field call for.
ArgDiagnostics(ifaceField, objectField) ==
  Cardinality({k \in DOMAIN ifaceField.args :
     \/ ~Has(objectField.args, ifaceField.args[k].name)
     \/ Get(objectField.args, ifaceField.args[k].name).type # ifaceField.args[k].type})
  + Cardinality({k \in DOMAIN objectField.args :
     /\ ~Has(ifaceField.args, objectField.args[k].name)
     /\ objectField.args[k].type[1] = "NonNull"})

RECURSIVE FieldDiagnostics(_, _, _, _)
\* The diagnostics the first n fields of an interface call for.
FieldDiagnostics(schema, iface, object, n) ==
  IF n = 0 THEN 0
  ELSE LET ifaceField == iface.fields[n]
       IN  FieldDiagnostics(schema, iface, object, n - 1)
           + (IF ~Has(object.fields, ifaceField.name) THEN 1
              ELSE LET objectField == Get(object.fields, ifaceField.name)
                   IN  (IF isTypeSubTypeOf(schema, objectField.type, ifaceField.type)
                        THEN 0 ELSE 1)
                       + ArgDiagnostics(ifaceField, objectField))

\* The calls of the conformance checker, of instance i, with an Interface.
ConformanceCalls(i) ==
  {k \in DOMAIN probe[i].implCalls :
     getType(schemas[i], probe[i].implCalls[k].iface).kind = "Interface"}

CallDiagnostics(i, k) ==
  SubSeq(probe[i].errors, probe[i].implCalls[k].first, probe[i].implCalls[k].last)

C7_Call(i, k) ==
  LET schema == schemas[i]
      iface == getType(schema, probe[i].implCalls[k].iface)
      object == getType(schema, probe[i].implCalls[k].object)
      diags == CallDiagnostics(i, k)
  IN  /\ \A f \in DOMAIN iface.fields :
           LET ifaceField == iface.fields[f]
               missing == MissingFieldMessage(iface, object, ifaceField.name)
           IN  IF ~Has(object.fields, ifaceField.name)
               THEN Count(diags, missing) = 1
               ELSE LET objectField == Get(object.fields, ifaceField.name)
                        mismatch == FieldTypeMessage(iface, object, ifaceField.name,
                                      ifaceField.type, objectField.type)
                    IN  /\ Count(diags, missing) = 0
                        /\ Count(diags, mismatch) =
                             IF isTypeSubTypeOf(schema, objectField.type, ifaceField.type)
                             THEN 0 ELSE 1
      /\ Len(diags) = FieldDiagnostics(schema, iface, object, Len(iface.fields))

\* C7: in one run of the conformance checker, an interface field the object
\* lacks gets exactly one "does not provide it" diagnostic and nothing else;
\* a field the object has gets a return-type diagnostic exactly when the
\* subtype oracle is false, and its argument diagnostics whatever the
\* return-type outcome; every interface field is checked.
C7_FieldConformance ==
  \A i \in Instances : Validated(i) =>
    \A k \in ConformanceCalls(i) : C7_Call(i, k)

\* One run of the checker found a missing field, then a field with a
\* return-type mismatch and argument diagnostics.
C7_Witness ==
  /\ Validated(1)
  /\ \E k \in ConformanceCalls(1) :
       LET iface == getType(schemas[1], "I")
           object == getType(schemas[1], "T")
           diags == CallDiagnostics(1, k)
       IN  /\ Len(iface.fields) = 2
           /\ ~Has(object.fields, "f")
           /\ Has(object.fields, "g")
           /\ Count(diags, MissingFieldMessage(iface, object, "f")) = 1
           /\ ~isTypeSubTypeOf(schemas[1], Get(object.fields, "g").type,
                               iface.fields[2].type)
           /\ Len(diags) = 5

C8_Call(i, k) ==
  LET schema == schemas[i]
      iface == getType(schema, probe[i].implCalls[k].iface)
      object == getType(schema, probe[i].implCalls[k].object)
      diags == CallDiagnostics(i, k)
  IN  \A f \in DOMAIN iface.fields :
        Has(object.fields, iface.fields[f].name) =>
          LET ifaceField == iface.fields[f]
              fieldName == ifaceField.name
              objectField == Get(object.fields, fieldName)
          IN  \A a \in DOMAIN ifaceField.args :
                LET ifaceArg == ifaceField.args[a]
                    missing == MissingArgMessage(iface, object, fieldName, ifaceArg.name)
                IN  IF ~Has(objectField.args, ifaceArg.name)
                    THEN /\ Count(diags, missing) = 1
                         /\ \A t \in ArgTypes :
                              Count(diags, ArgTypeMessage(iface, object, fieldName,
                                             ifaceArg.name, ifaceArg.type, t)) = 0
                    ELSE LET objectArg == Get(objectField.args, ifaceArg.name)
                             mismatch == ArgTypeMessage(iface, object, fieldName,
                                           ifaceArg.name, ifaceArg.type, objectArg.type)
                         IN  /\ Count(diags, missing) = 0
                             /\ Count(diags, mismatch) =
                                  IF isEqualType(ifaceArg.type, objectArg.type)
                                  THEN 0 ELSE 1
                             /\ ifaceArg.type # objectArg.type =>
                                  Count(diags, mismatch) = 1

\* C8: an interface argument the object's field lacks gets exactly one
\* missing-argument diagnostic and no type diagnostic; one it has gets a type
\* diagnostic exactly when the two types are not equal, a subtype included.
C8_ArgumentInvariance ==
  \A i \in Instances : Validated(i) =>
    \A k \in ConformanceCalls(i) : C8_Call(i, k)

\* T.f(a: String!) against I.f(a: String, b: ...): a type diagnostic for a
\* and a missing-argument diagnostic for b.
C8_Witness ==
  /\ Validated(1)
  /\ \E k \in ConformanceCalls(1) :
       LET iface == getType(schemas[1], "I")
           object == getType(schemas[1], "T")
           diags == CallDiagnostics(1, k)
       IN  /\ Has(iface.fields[1].args, "a") /\ Has(iface.fields[1].args, "b")
           /\ Get(iface.fields[1].args, "a").type = Named("String")
           /\ Has(Get(object.fields, "f").args, "a")
           /\ ~Has(Get(object.fields, "f").args, "b")
           /\ Get(Get(object.fields, "f").args, "a").type = NonNull(Named("String"))
           /\ Count(diags, ArgTypeMessage(iface, object, "f", "a", Named("String"),
                                          NonNull(Named("String")))) = 1
           /\ Count(diags, MissingArgMessage(iface, object, "f", "b")) = 1

C9_Call(i, k) ==
  LET schema == schemas[i]
      iface == getType(schema, probe[i].implCalls[k].iface)
      object == getType(schema, probe[i].implCalls[k].object)
      diags == CallDiagnostics(i, k)
  IN  \A f \in DOMAIN iface.fields :
        Has(object.fields, iface.fields[f].name) =>
          LET ifaceField == iface.fields[f]
              fieldName == ifaceField.name
              objectField == Get(object.fields, fieldName)
          IN  \A a \in DOMAIN objectField.args :
                LET objectArg == objectField.args[a]
                    extra == ExtraArgMessage(iface, object, fieldName,
                                             objectArg.name, objectArg.type)
                IN  IF Has(ifaceField.args, objectArg.name)
                    THEN \A t \in ArgTypes :
                           Count(diags, ExtraArgMessage(iface, object, fieldName,
                                                        objectArg.name, t)) = 0
                    ELSE Count(diags, extra) =
                           IF objectArg.type[1] = "NonNull" THEN 1 ELSE 0

\* C9: an argument of the object's field that the interface field does not
\* declare gets exactly one diagnostic if its type is a NonNull and none if
\* it is nullable; an argument the interface declares gets none.
C9_ExtraArguments ==
  \A i \in Instances : Validated(i) =>
    \A k \in ConformanceCalls(i) : C9_Call(i, k)

\* T.f declares a required extra argument (diagnosed), a nullable extra
\* argument (not diagnosed) and no other argument.
C9_Witness ==
  /\ Validated(1)
  /\ \E k \in ConformanceCalls(1) :
       LET iface == getType(schemas[1], "I")
           object == getType(schemas[1], "T")
           args == Get(object.fields, "f").args
           diags == CallDiagnostics(1, k)
       IN  /\ iface.fields[1].args = <<>>
           /\ Len(args) = 2
           /\ args[1].type = Named("String")
           /\ args[2].type = NonNull(Named("String"))
           /\ Len(diags) = 1
           /\ Count(diags, ExtraArgMessage(iface, object, "f", args[2].name,
                                           args[2].type)) = 1

(* ----------------------------- claims: rule --------------------------- *)

\* The visits, among the first n, of an operation with a name.
OperationVisits(name, n) ==
  {k \in 1..n : /\ visited[k].kind = "OperationDefinition"
                /\ visited[k].name.kind = "Name"
                /\ visited[k].name.value = name}

FirstVisit(name, n) ==
  CHOOSE k \in OperationVisits(name, n) : \A j \in OperationVisits(name, n) : k <= j

RECURSIVE ExpectedReports(_)
\* The errors the first n visits call for: one for each visit of an operation
\* whose name an earlier operation had, citing the name node of the first
\* operation of that name and the visit's own.
ExpectedReports(n) ==
  IF n = 0 THEN <<>>
  ELSE LET node == visited[n]
       IN  IF /\ node.kind = "OperationDefinition"
              /\ node.name.kind = "Name"
              /\ OperationVisits(node.name.value, n - 1) # {}
           THEN Append(ExpectedReports(n - 1),
                  [message |-> "There can be only one operation named \""
                                 \o node.name.value \o "\".",
                   nodes |-> <<visited[FirstVisit(node.name.value, n)].name,
                               node.name>>])
           ELSE ExpectedReports(n - 1)

\* C10: an operation without a name reports and records nothing; the first
\* visit of a name records its name node; every later visit of the name
\* reports one error citing the first name node and its own, so n visits of
\* a name yield n-1 errors; both handlers return false and a fragment visit
\* leaves the recorded names alone.
C10_UniqueOperationNames ==
  /\ reported = ExpectedReports(Len(visited))
  /\ \A name \in OperationNames :
       /\ knownOperationNames[name] =
            IF OperationVisits(name, Len(visited)) = {} THEN Undefined
            ELSE visited[FirstVisit(name, Len(visited))].name
       /\ OperationVisits(name, Len(visited)) # {} =>
            Count(reported, duplicateOperationNameMessage(name))
              = Cardinality(OperationVisits(name, Len(visited))) - 1
  /\ visited # <<>> => returned = False

\* Three operations named "a" were visited, with a fragment among the visits:
\* two errors, both citing the name node of the first operation.
C10_Witness ==
  /\ Cardinality(OperationVisits("a", Len(visited))) = 3
  /\ \E k \in DOMAIN visited : visited[k].kind = "FragmentDefinition"
  /\ Len(reported) = 2
  /\ reported[1].nodes[1] = reported[2].nodes[1]
  /\ reported[2].nodes[2] # reported[1].nodes[2]
  /\ reported[2].nodes[1] = knownOperationNames["a"]

====
